---- MODULE Spec2Model ----
(***************************************************************************)
(* Model of godoc-repair (main.go): the comment rewriter autoDecl with its *)
(* helpers containsGoDoc, trimPrefix and mockDoc, and the identifier       *)
(* segmenter Split.                                                        *)
(*                                                                         *)
(* A Go string is modelled as a sequence of code points, each code point a *)
(* one-character TLA+ string; a comment block (dst.Decorations) is a       *)
(* sequence of such strings.                                               *)
(***************************************************************************)
EXTENDS Integers, Sequences, FiniteSets, TLC

VARIABLES
    commentFormat,    \* main.go:28, value of the --format flag
    autoDescription,  \* main.go:30, value of the --auto-description flag
    name,             \* ident.Name of the declaration being visited
    decs,             \* t.Decs.Start of that declaration
    orig,             \* decs as the parser delivered them (history)
    prev,             \* decs before the latest autoDecl call (history)
    runs,             \* number of autoDecl calls applied to this declaration
    crashed,          \* TRUE once a call has panicked
    src,              \* argument of a direct call of Split
    ret,              \* what that call returned
    pc                \* "visit" | "repair" | "split" | "done"

vars == <<commentFormat, autoDescription, name, decs, orig, prev, runs,
          crashed, src, ret, pc>>

----------------------------------------------------------------------------
(* Bounds of the model. *)

\* longest identifier enumerated for the rewriter
MaxNameLen == 2
\* longest free description text enumerated in a head line
MaxDescLen == 1
\* longest comment block enumerated
MaxLines == 2
\* how many times in a row autoDecl is applied to the same declaration
MaxRuns == 2
\* longest string enumerated for a direct call of Split
MaxSrcLen == 4

----------------------------------------------------------------------------
(* Code points and the unicode predicates the program uses. *)

\* unicode.ToLower on the upper-case letters of the model
CaseMap ==
    [A |-> "a", B |-> "b", C |-> "c", D |-> "d", F |-> "f", L |-> "l",
     P |-> "p"]

LowerRunes ==
    {"a", "b", "c", "d", "e", "f", "g", "i", "l", "m", "n", "o", "p", "r",
     "s"}

DigitRunes == {"1", "2"}

\* a byte that is not valid UTF-8
BadByte == "\\xff"

IsUpper(r) == r \in DOMAIN CaseMap

IsLower(r) == r \in LowerRunes

IsDigit(r) == r \in DigitRunes

ToLowerRune(r) == IF IsUpper(r) THEN CaseMap[r] ELSE r

ValidString(s) == \A i \in 1..Len(s) : s[i] # BadByte

----------------------------------------------------------------------------
(* package strings / fmt *)

HasPrefix(s, p) == Len(s) >= Len(p) /\ SubSeq(s, 1, Len(p)) = p

TrimPrefix(s, p) == IF HasPrefix(s, p) THEN SubSeq(s, Len(p) + 1, Len(s)) ELSE s

ToLower(s) == [i \in 1..Len(s) |-> ToLowerRune(s[i])]

RECURSIVE Join(_, _)
Join(elems, sep) ==
    IF Len(elems) = 0 THEN <<>>
    ELSE IF Len(elems) = 1 THEN elems[1]
    ELSE elems[1] \o sep \o Join(Tail(elems), sep)

\* fmt.Sprintf for formats whose only verb is %s; the verb is the single
\* element "%s" of the format sequence.
RECURSIVE Sprintf(_, _)
Sprintf(format, args) ==
    IF Len(format) = 0 THEN <<>>
    ELSE IF Head(format) = "%s"
         THEN IF Len(args) = 0
              THEN <<"%!s(MISSING)">> \o Sprintf(Tail(format), args)
              ELSE Head(args) \o Sprintf(Tail(format), Tail(args))
         ELSE <<Head(format)>> \o Sprintf(Tail(format), args)

defaultCommentFormat ==
    <<"/", "/", " ", "%s", " ", "m", "i", "s", "s", "i", "n", "g", " ",
      "g", "o", "d", "o", "c", ".">>

autoDescriptionFormat == <<"/", "/", " ", "%s", " ", "%s">>

----------------------------------------------------------------------------
(* Split, main.go:253-296.  The result is a record: panic is TRUE when the *)
(* call indexes an empty fragment (runtime error: index out of range).     *)

RuneClass(r) ==
    IF IsLower(r) THEN 1
    ELSE IF IsUpper(r) THEN 2
    ELSE IF IsDigit(r) THEN 3
    ELSE 4

\* the first loop: split into fields based on class of unicode character
RECURSIVE SplitFields(_, _, _, _)
SplitFields(s, i, runes, lastClass) ==
    IF i > Len(s) THEN runes
    ELSE LET class == RuneClass(s[i]) IN
         IF class = lastClass
         THEN SplitFields(s, i + 1,
                  [runes EXCEPT ![Len(runes)] = Append(@, s[i])], class)
         ELSE SplitFields(s, i + 1, Append(runes, <<s[i]>>), class)

\* faulty variant: a one-letter upper-case fragment is kept whole
RECURSIVE SplitUpperLowerKeepSingle(_, _)
SplitUpperLowerKeepSingle(runes, i) ==
    IF i > Len(runes) - 1 THEN [panic |-> FALSE, runes |-> runes]
    ELSE IF Len(runes[i]) = 0 THEN [panic |-> TRUE, runes |-> runes]
    ELSE IF ~IsUpper(runes[i][1]) THEN SplitUpperLowerKeepSingle(runes, i + 1)
    ELSE IF Len(runes[i + 1]) = 0 THEN [panic |-> TRUE, runes |-> runes]
    ELSE IF ~IsLower(runes[i + 1][1]) \/ Len(runes[i]) = 1
         THEN SplitUpperLowerKeepSingle(runes, i + 1)
    ELSE SplitUpperLowerKeepSingle(
             [runes EXCEPT
                 ![i + 1] = <<runes[i][Len(runes[i])]>> \o @,
                 ![i] = SubSeq(@, 1, Len(@) - 1)],
             i + 1)

\* the second loop: handle upper case -> lower case sequences
\* (i is the 1-based loop index; the Go loop runs while i < len(runes)-1)
RECURSIVE SplitUpperLower(_, _)
SplitUpperLower(runes, i) ==
    IF i > Len(runes) - 1 THEN [panic |-> FALSE, runes |-> runes]
    ELSE IF Len(runes[i]) = 0 THEN [panic |-> TRUE, runes |-> runes]
    ELSE IF ~IsUpper(runes[i][1]) THEN SplitUpperLower(runes, i + 1)
    ELSE IF Len(runes[i + 1]) = 0 THEN [panic |-> TRUE, runes |-> runes]
    ELSE IF ~IsLower(runes[i + 1][1]) THEN SplitUpperLower(runes, i + 1)
    ELSE SplitUpperLower(
             [runes EXCEPT
                 ![i + 1] = <<runes[i][Len(runes[i])]>> \o @,
                 ![i] = SubSeq(@, 1, Len(@) - 1)],
             i + 1)

\* faulty variant: fragments emptied by the second loop are not dropped
SplitEntriesKeepEmpty(runes) == runes

\* the third loop: construct []string from results
SplitEntries(runes) == SelectSeq(runes, LAMBDA s : Len(s) > 0)

Split(s) ==
    IF ~ValidString(s) THEN [panic |-> FALSE, entries |-> <<s>>]
    ELSE LET fixed == SplitUpperLower(SplitFields(s, 1, <<>>, 0), 1) IN
         IF fixed.panic THEN [panic |-> TRUE, entries |-> <<>>]
         ELSE [panic |-> FALSE, entries |-> SplitEntries(fixed.runes)]

----------------------------------------------------------------------------
(* The comment rewriter, main.go:127-203. *)

\* faulty variant: the words are joined without being lower-cased
mockDocNoLower(n) == Join(Split(n).entries, <<" ">>)

\* mockDoc, main.go:197-203: split the name to single words, lower-cased
mockDoc(n) ==
    LET results == Split(n).entries IN
    Join([i \in 1..Len(results) |-> ToLower(results[i])], <<" ">>)

\* faulty variant: the generic "// " and "//" are tried before the name-bearing cases
trimCasesGenericFirst(n) ==
    << Sprintf(<<"/", "/", " ">>, <<>>),
       Sprintf(<<"/", "/">>, <<>>),
       Sprintf(<<"/", "/", "%s", " ">>, <<n>>),
       Sprintf(<<"/", "/", " ", "%s", ":", " ">>, <<n>>),
       Sprintf(<<"/", "/", " ", "%s", ":">>, <<n>>),
       Sprintf(<<"/", "/", "%s", ":", " ">>, <<n>>),
       Sprintf(<<"/", "/", "%s", ":">>, <<n>>) >>

\* faulty variant: "//" is tried before "// "
trimCasesSlashFirst(n) ==
    << Sprintf(<<"/", "/", "%s", " ">>, <<n>>),
       Sprintf(<<"/", "/", " ", "%s", ":", " ">>, <<n>>),
       Sprintf(<<"/", "/", " ", "%s", ":">>, <<n>>),
       Sprintf(<<"/", "/", "%s", ":", " ">>, <<n>>),
       Sprintf(<<"/", "/", "%s", ":">>, <<n>>),
       Sprintf(<<"/", "/">>, <<>>),
       Sprintf(<<"/", "/", " ">>, <<>>) >>

\* the prefixes trimPrefix tries, in the order of the cases slice
trimCases(n) ==
    << Sprintf(<<"/", "/", "%s", " ">>, <<n>>),
       Sprintf(<<"/", "/", " ", "%s", ":", " ">>, <<n>>),
       Sprintf(<<"/", "/", " ", "%s", ":">>, <<n>>),
       Sprintf(<<"/", "/", "%s", ":", " ">>, <<n>>),
       Sprintf(<<"/", "/", "%s", ":">>, <<n>>),
       Sprintf(<<"/", "/", " ">>, <<>>),
       Sprintf(<<"/", "/">>, <<>>) >>

\* trimPrefix, main.go:171-194: the first case that is a prefix is trimmed
trimPrefix(doc, n) ==
    LET cases == trimCases(n)
        hits == {i \in 1..Len(cases) : HasPrefix(doc, cases[i])}
    IN  IF hits = {} THEN doc
        ELSE TrimPrefix(doc, cases[CHOOSE i \in hits : \A j \in hits : i <= j])

\* faulty variant: the well-formed test uses the format "// %s" (no trailing space)
containsGoDocNoSpace(d, n) ==
    IF Len(d) = 0
    THEN [empty |-> TRUE, emptyName |-> FALSE, justName |-> FALSE]
    ELSE LET first == d[1] IN
         IF \/ first = Sprintf(<<"/", "/", " ", "%s">>, <<n>>)
            \/ first = Sprintf(<<"/", "/", "%s">>, <<n>>)
         THEN [empty |-> FALSE, emptyName |-> FALSE, justName |-> TRUE]
         ELSE IF ~HasPrefix(first, Sprintf(<<"/", "/", " ", "%s">>, <<n>>))
         THEN [empty |-> FALSE, emptyName |-> TRUE, justName |-> FALSE]
         ELSE [empty |-> FALSE, emptyName |-> FALSE, justName |-> FALSE]

\* faulty variant: the well-formed test uses the format "//%s " (no space after //)
containsGoDocNoGap(d, n) ==
    IF Len(d) = 0
    THEN [empty |-> TRUE, emptyName |-> FALSE, justName |-> FALSE]
    ELSE LET first == d[1] IN
         IF \/ first = Sprintf(<<"/", "/", " ", "%s">>, <<n>>)
            \/ first = Sprintf(<<"/", "/", "%s">>, <<n>>)
         THEN [empty |-> FALSE, emptyName |-> FALSE, justName |-> TRUE]
         ELSE IF ~HasPrefix(first, Sprintf(<<"/", "/", "%s", " ">>, <<n>>))
         THEN [empty |-> FALSE, emptyName |-> TRUE, justName |-> FALSE]
         ELSE [empty |-> FALSE, emptyName |-> FALSE, justName |-> FALSE]

\* containsGoDoc, main.go:157-169: return (empty, emptyName, justName)
containsGoDoc(d, n) ==
    IF Len(d) = 0
    THEN [empty |-> TRUE, emptyName |-> FALSE, justName |-> FALSE]
    ELSE LET first == d[1] IN
         IF \/ first = Sprintf(<<"/", "/", " ", "%s">>, <<n>>)
            \/ first = Sprintf(<<"/", "/", "%s">>, <<n>>)
         THEN [empty |-> FALSE, emptyName |-> FALSE, justName |-> TRUE]
         ELSE IF ~HasPrefix(first, Sprintf(<<"/", "/", " ", "%s", " ">>, <<n>>))
         THEN [empty |-> FALSE, emptyName |-> TRUE, justName |-> FALSE]
         ELSE [empty |-> FALSE, emptyName |-> FALSE, justName |-> FALSE]

\* ident.IsExported(): the first code point is upper-case
IsExported(n) == Len(n) > 0 /\ IsUpper(n[1])

\* faulty variant: the edited lines are appended instead of replacing the block
ReplaceByAppend(d, all) == d \o all

\* dst.Decorations.Prepend / Replace as autoDecl calls them
Prepend(d, line) == <<line>> \o d

Replace(d, all) == all

\* autoDecl, main.go:132-135: the line written for a missing description.
\* The format is the constant defaultCommentFormat; the variable
\* commentFormat is not read.
autoDeclDoc(ident) ==
    IF autoDescription
    THEN Sprintf(autoDescriptionFormat, <<ident, mockDoc(ident)>>)
    ELSE Sprintf(defaultCommentFormat, <<ident>>)

\* autoDecl, main.go:136-153: the three repairs, for an exported ident
autoDeclRepair(ident, decorations) ==
    LET doc == autoDeclDoc(ident)
        flags == containsGoDoc(decorations, ident)
        d1 == IF flags.empty THEN Prepend(decorations, doc) ELSE decorations
        d2 == IF flags.emptyName
              THEN LET first == Sprintf(<<"/", "/", " ", "%s", " ", "%s">>,
                                        <<ident, trimPrefix(d1[1], ident)>>)
                   IN  Replace(d1, [d1 EXCEPT ![1] = first])
              ELSE d1
        d3 == IF flags.justName
              THEN Replace(d2, [d2 EXCEPT ![1] = doc])
              ELSE d2
    IN  d3

\* faulty variant: the IsExported guard is missing
autoDeclUnguarded(ident, decorations) == autoDeclRepair(ident, decorations)

\* autoDecl, main.go:127-154
autoDecl(ident, decorations) ==
    IF ~IsExported(ident) THEN decorations
    ELSE autoDeclRepair(ident, decorations)

\* whether the call panics: only mockDoc's call of Split can
autoDeclPanics(ident) ==
    IsExported(ident) /\ autoDescription /\ Split(ident).panic

----------------------------------------------------------------------------
(* Inputs: the flags, the declarations the parser delivers. *)

RECURSIVE Strings(_, _)
Strings(alphabet, n) ==
    IF n = 0 THEN {<<>>}
    ELSE LET shorter == Strings(alphabet, n - 1) IN
         shorter \cup {Append(s, r) : s \in {t \in shorter : Len(t) = n - 1},
                                      r \in alphabet}

CamelCase == <<"C", "a", "m", "e", "l", "C", "a", "s", "e">>

PDFLoader == <<"P", "D", "F", "L", "o", "a", "d", "e", "r">>

\* identifiers: a letter or "_" first, then letters, digits and "_"
Names ==
    {s \in Strings({"A", "a", "1", "_"}, MaxNameLen) :
        Len(s) > 0 /\ ~IsDigit(s[1])} \cup {CamelCase, PDFLoader}

\* values of --format: the default and an override
Formats ==
    {defaultCommentFormat, <<"/", "/", " ", "%s", " ", "o", "p", ".">>}

camelcase == <<"c", "a", "m", "e", "l", " ", "c", "a", "s", "e">>

Descs == Strings({"a", " ", ":"}, MaxDescLen) \cup {camelcase}

\* head lines: "//" or "// ", the name or not, a separator, a description
Heads(n) ==
    {pre \o mid \o sep \o desc :
        pre \in {<<"/", "/">>, <<"/", "/", " ">>},
        mid \in {<<>>, n},
        sep \in {<<>>, <<" ">>, <<":">>, <<":", " ">>},
        desc \in Descs}
    \cup {<<"\n">>, <<"/", "*", "a", "*", "/">>}

\* the lines after the head line
Floating == {<<"/", "/", " ", "d">>, <<"\n">>}

Blocks(n) ==
    {<<>>} \cup
    {<<h>> \o t : h \in Heads(n),
                  t \in Strings(Floating, MaxLines - 1)}

\* arguments of direct calls of Split
SplitInputs ==
    {s \in Strings({"A", "B", "a", "b", "1", "_", BadByte}, MaxSrcLen) :
        Len(s) > 0} \cup {CamelCase, PDFLoader}

NoReturn == [panic |-> FALSE, entries |-> <<>>]

----------------------------------------------------------------------------
(* The tool: flags are parsed once (init), then dst.Inspect hands each     *)
(* declaration to autoDecl; a further call applies autoDecl to the block   *)
(* the previous call returned.                                             *)

Init ==
    /\ commentFormat \in Formats
    /\ autoDescription \in BOOLEAN
    /\ name = <<>>
    /\ decs = <<>>
    /\ orig = <<>>
    /\ prev = <<>>
    /\ runs = 0
    /\ crashed = FALSE
    /\ src = <<>>
    /\ ret = NoReturn
    /\ pc = "visit"

\* instrumentFile, main.go:96-123: the walk reaches a declaration
Visit ==
    /\ pc = "visit"
    /\ \E n \in Names : \E lines \in Blocks(n) :
          /\ name' = n
          /\ decs' = lines
          /\ orig' = lines
          /\ prev' = lines
    /\ pc' = "repair"
    /\ UNCHANGED <<commentFormat, autoDescription, runs, crashed, src, ret>>

\* t.Decs.Start = autoDecl(t.Name, t.Decs.Start)
AutoDecl ==
    /\ pc = "repair"
    /\ runs < MaxRuns
    /\ ~crashed
    /\ IF autoDeclPanics(name)
       THEN crashed' = TRUE /\ UNCHANGED <<decs, prev>>
       ELSE /\ decs' = autoDecl(name, decs)
            /\ prev' = decs
            /\ crashed' = FALSE
    /\ runs' = runs + 1
    /\ UNCHANGED <<commentFormat, autoDescription, name, orig, src, ret, pc>>

Next == Visit \/ AutoDecl

Spec == Init /\ [][Next]_vars

(* Direct calls of Split over bounded inputs. *)

SplitInit ==
    /\ commentFormat = defaultCommentFormat
    /\ autoDescription = FALSE
    /\ name = <<>>
    /\ decs = <<>>
    /\ orig = <<>>
    /\ prev = <<>>
    /\ runs = 0
    /\ crashed = FALSE
    /\ src \in SplitInputs
    /\ ret = NoReturn
    /\ pc = "split"

SplitCall ==
    /\ pc = "split"
    /\ ret' = Split(src)
    /\ pc' = "done"
    /\ UNCHANGED <<commentFormat, autoDescription, name, decs, orig, prev,
                   runs, crashed, src>>

SplitNext == SplitCall

SplitSpec == SplitInit /\ [][SplitNext]_vars

----------------------------------------------------------------------------
(* Properties. *)

Line(pre, n, rest) == pre \o n \o rest

SlashSlash == <<"/", "/">>

SlashSpace == <<"/", "/", " ">>

\* the head line is exactly "// N" or "//N"
NameOnly(d, n) ==
    Len(d) > 0 /\ (d[1] = Line(SlashSpace, n, <<>>) \/ d[1] = Line(SlashSlash, n, <<>>))

\* the first call of autoDecl on the parsed block has returned
Repaired == pc = "repair" /\ runs = 1 /\ ~crashed

\* C1: for a name whose first code point is not upper-case, every call of
\* autoDecl returns the comment lines exactly as given, whatever the block
\* and the flags.
C1_NonExportedPassthrough ==
    (pc = "repair" /\ runs >= 1 /\ ~IsUpper(name[1]))
        => (~crashed /\ decs = prev /\ decs = orig)

\* a non-exported name with a defective head line went through autoDecl
C1_Witness ==
    /\ Repaired /\ ~IsUpper(name[1])
    /\ Len(orig) > 0 /\ ~HasPrefix(orig[1], Line(SlashSpace, name, <<" ">>))
    /\ decs = orig

\* C2: for an exported name, applying autoDecl to its own output returns
\* that output again, for every block, both values of autoDescription and
\* every value of the format flag.
C2_Idempotent ==
    (pc = "repair" /\ runs >= 2 /\ IsExported(name))
        => (~crashed /\ decs = prev)

\* a block the first call changed was given to a second call
C2_Witness ==
    /\ pc = "repair" /\ runs = 2 /\ IsExported(name)
    /\ containsGoDoc(orig, name).emptyName
    /\ prev # orig
    /\ commentFormat # defaultCommentFormat
    /\ autoDescription

\* C3: for an exported name N, a block whose head line begins with "// N "
\* is returned unchanged; and containsGoDoc returns three false flags for
\* exactly the blocks whose head line begins with "// N ".
C3_WellFormedPassthrough ==
    pc = "repair" =>
        LET flags == containsGoDoc(decs, name)
            wellFormed == Len(decs) > 0
                          /\ HasPrefix(decs[1], Line(SlashSpace, name, <<" ">>))
            wasWellFormed == Len(prev) > 0
                          /\ HasPrefix(prev[1], Line(SlashSpace, name, <<" ">>))
        IN  /\ (~flags.empty /\ ~flags.emptyName /\ ~flags.justName) <=> wellFormed
            /\ (runs >= 1 /\ IsExported(name) /\ wasWellFormed) => decs = prev

\* a parsed block that was already well-formed went through autoDecl
C3_Witness ==
    /\ Repaired /\ IsExported(name)
    /\ Len(orig) > 1
    /\ HasPrefix(orig[1], Line(SlashSpace, name, <<" ">>))
    /\ decs = orig

\* C4: for an exported name and a non-empty block the result has the length
\* of the input and the same line at every index >= 1 (2 here, 1-based);
\* for the empty block the result is exactly one line.
C4_OnlyHeadTouched ==
    (pc = "repair" /\ runs >= 1 /\ IsExported(name)) =>
        IF Len(prev) = 0
        THEN Len(decs) = 1
        ELSE /\ Len(decs) = Len(prev)
             /\ \A i \in 2..Len(prev) : decs[i] = prev[i]

\* a block of several lines had its head line rewritten
C4_Witness ==
    /\ Repaired /\ IsExported(name)
    /\ Len(orig) > 1
    /\ decs[1] # orig[1]
    /\ decs[2] = orig[2]

\* C5: with autoDescription off and an exported name N, an empty block or a
\* name-only head line gets the head line format % N, where format is the
\* value of the --format flag.
C5_FormatHonoured ==
    (Repaired /\ ~autoDescription /\ IsExported(name)
        /\ (Len(orig) = 0 \/ NameOnly(orig, name)))
        => decs[1] = Sprintf(commentFormat, <<name>>)

\* what the code does instead: the default template, whatever the flag
C5_DefaultFormatUsed ==
    (Repaired /\ ~autoDescription /\ IsExported(name)
        /\ (Len(orig) = 0 \/ NameOnly(orig, name)))
        => decs[1] = Sprintf(defaultCommentFormat, <<name>>)

\* the fragments of Split(n), lower-cased and joined by single spaces
Description(n) ==
    LET f == Split(n).entries IN
    Join([i \in 1..Len(f) |-> [j \in 1..Len(f[i]) |-> ToLowerRune(f[i][j])]],
         <<" ">>)

After(head, p) == SubSeq(head, Len(p) + 1, Len(head))

\* C7: for an exported name N, a head line "// N: D" or "//N: D" (any D),
\* or "// N:D" or "//N:D" (D not starting with a space), becomes exactly
\* "// N D".
C7_ColonForms ==
    (Repaired /\ IsExported(name) /\ Len(orig) > 0) =>
        LET head == orig[1]
            colon(pre) == Line(pre, name, <<":">>)
            colonSp(pre) == Line(pre, name, <<":", " ">>)
            want(D) == Line(SlashSpace, name, <<" ">>) \o D
        IN  \A pre \in {SlashSlash, SlashSpace} :
              /\ HasPrefix(head, colonSp(pre))
                    => decs[1] = want(After(head, colonSp(pre)))
              /\ (HasPrefix(head, colon(pre)) /\ ~HasPrefix(head, colonSp(pre)))
                    => decs[1] = want(After(head, colon(pre)))

\* "//CamelCase: camel case" was reduced to "// CamelCase camel case"
C7_Witness ==
    /\ Repaired
    /\ name = CamelCase /\ Len(orig) > 0
    /\ orig[1] = Line(SlashSlash, CamelCase, <<":", " ">>) \o camelcase
    /\ decs[1] = Line(SlashSpace, CamelCase, <<" ">>) \o camelcase

\* the head matches one of the five name-bearing prefixes of trimPrefix
NameBearing(head, n) ==
    \/ HasPrefix(head, Line(SlashSlash, n, <<" ">>))
    \/ HasPrefix(head, Line(SlashSpace, n, <<":">>))
    \/ HasPrefix(head, Line(SlashSlash, n, <<":">>))

\* C8: for an exported name N and a head line that is not name-only, does
\* not begin with "// N " and matches none of the five name-bearing
\* prefixes, the new head line is "// N " + R, R being the head without a
\* leading "// ", else without a leading "//", else whole, verbatim.
C8_GenericFallback ==
    (Repaired /\ IsExported(name) /\ Len(orig) > 0
        /\ ~NameOnly(orig, name)
        /\ ~HasPrefix(orig[1], Line(SlashSpace, name, <<" ">>))
        /\ ~NameBearing(orig[1], name)) =>
        LET head == orig[1]
            R == IF HasPrefix(head, SlashSpace) THEN After(head, SlashSpace)
                 ELSE IF HasPrefix(head, SlashSlash) THEN After(head, SlashSlash)
                 ELSE head
        IN  /\ decs[1] = Line(SlashSpace, name, <<" ">>) \o R
            /\ (name = CamelCase /\ head = SlashSpace \o camelcase)
                  => decs[1] = Line(SlashSpace, CamelCase, <<" ">>) \o camelcase
            /\ (name = CamelCase /\ head = Line(SlashSlash, CamelCase, camelcase))
                  => decs[1] = Line(SlashSpace, CamelCase, <<" ">>)
                               \o CamelCase \o camelcase

\* the glued head "//CamelCasecamel case" kept its merged remainder
C8_Witness ==
    /\ Repaired
    /\ name = CamelCase /\ Len(orig) > 0
    /\ orig[1] = Line(SlashSlash, CamelCase, camelcase)
    /\ decs[1] = Line(SlashSpace, CamelCase, <<" ">>) \o CamelCase \o camelcase

RECURSIVE Concat(_)
Concat(ss) == IF Len(ss) = 0 THEN <<>> ELSE Head(ss) \o Concat(Tail(ss))

\* C9: for every valid-text identifier Split does not fail, returns only
\* non-empty fragments, and their concatenation in order is the identifier.
C9_SplitCoverage ==
    (pc = "done" /\ ValidString(src)) =>
        /\ ~ret.panic
        /\ \A i \in 1..Len(ret.entries) : Len(ret.entries[i]) > 0
        /\ Concat(ret.entries) = src

\* one upper-case letter followed by lower-case letters: the one-letter
\* fragment was emptied and dropped
C9_Witness ==
    /\ pc = "done"
    /\ src = <<"A", "b", "b">>
    /\ ret.entries = << <<"A", "b", "b">> >>

(* The reference procedure of the segmenter: group by class, then one pass  *)
(* over the boundaries as classified after grouping.                        *)

\* positions where a fragment starts
RefStarts(s) ==
    {i \in 1..Len(s) : i = 1 \/ RuneClass(s[i]) # RuneClass(s[i - 1])}

\* the k-th smallest element of a set of numbers
RECURSIVE RefNth(_, _)
RefNth(S, k) ==
    LET m == CHOOSE x \in S : \A y \in S : x <= y IN
    IF k = 1 THEN m ELSE RefNth(S \ {m}, k - 1)

RefSegment(s) ==
    LET starts == RefStarts(s)
        n == Cardinality(starts)
        from(k) == RefNth(starts, k)
        to(k) == IF k = n THEN Len(s) ELSE RefNth(starts, k + 1) - 1
        class(k) == RuneClass(s[from(k)])
        moved(k) == k >= 1 /\ k < n /\ class(k) = 2 /\ class(k + 1) = 1
        frag(k) == SubSeq(s, IF moved(k - 1) THEN from(k) - 1 ELSE from(k),
                             IF moved(k) THEN to(k) - 1 ELSE to(k))
    IN  SelectSeq([k \in 1..n |-> frag(k)], LAMBDA f : Len(f) > 0)

\* C10: on valid text Split returns what the reference procedure returns;
\* Split("PDFLoader") = ["PDF", "Loader"], Split("CamelCase") = ["Camel",
\* "Case"].
C10_SplitMatchesReference ==
    (pc = "done" /\ ValidString(src)) =>
        /\ ~ret.panic
        /\ ret.entries = RefSegment(src)
        /\ src = PDFLoader
              => ret.entries = << <<"P", "D", "F">>,
                                  <<"L", "o", "a", "d", "e", "r">> >>
        /\ src = CamelCase
              => ret.entries = << <<"C", "a", "m", "e", "l">>,
                                  <<"C", "a", "s", "e">> >>

\* a fragment that received a moved upper-case letter is followed by an
\* upper-case fragment: its current first rune is upper-case, and no further
\* move happens at that boundary
C10_Witness ==
    /\ pc = "done"
    /\ src = <<"A", "b", "B", "a">>
    /\ ret.entries = << <<"A", "b">>, <<"B", "a">> >>

====
